---- MODULE Spec2Model ----
(***************************************************************************)
(* Model of AIProcessor (src/ai_processor.py): the admission check of      *)
(* process_frame, the task queue, the callback registry and the worker     *)
(* thread _process_queue, at the granularity of the statements that read   *)
(* or write shared state.                                                  *)
(*                                                                         *)
(* Program state: current_mode, last_processed_time, running, model_ok     *)
(* (the service is available: GENAI_AVAILABLE and self.model is not None), *)
(* task_queue, result_callbacks, unfinished (queue.Queue's                 *)
(* unfinished_tasks), the worker's position wpc with its locals cur,       *)
(* prompt, result and fault, each caller's position ppc with its locals    *)
(* pl, and the clock now (the last value time.time() returned); and main,  *)
(* the fields of MainWindow (src/main.py) around it: last_process_time and *)
(* process_interval, and the position pc of the camera's frame handler     *)
(* with its clock reading current_time and the number call of              *)
(* process_frame calls made when it found a frame due.                     *)
(*                                                                         *)
(* History (not program state, never read by an action's guard):           *)
(*   ncalls        the number of process_frame calls made; a call, and     *)
(*                 the callback passed to it, is named by its number       *)
(*   nav_admitted  the clock readings of the calls admitted in Navigation  *)
(*                 mode                                                    *)
(*   admitted      the calls whose task was enqueued, in that order        *)
(*   dequeued      the calls whose task the worker took, in that order     *)
(*   ninv          how often each call's callback has been invoked         *)
(*   last_inv      the last invocation made for the task in hand           *)
(*   served        whether the service was called for the task in hand     *)
(*   queued_at_shutdown  the calls whose task was in the queue when        *)
(*                 shutdown() cleared running                              *)
(*   registered    the calls that have stored their callback in            *)
(*                 result_callbacks                                        *)
(* and the field "call" of a task and of a registered callback, and the   *)
(* field "mode" of a task: the mode that was current when it was enqueued. *)
(***************************************************************************)
EXTENDS Integers, Sequences, FiniteSets, TLC

VARIABLES current_mode, last_processed_time, running, model_ok,
          task_queue, result_callbacks, unfinished,
          wpc, cur, prompt, result, fault, served,
          ppc, pl, now,
          ncalls, nav_admitted, admitted, dequeued, ninv, last_inv,
          queued_at_shutdown, registered,
          main

vars == <<current_mode, last_processed_time, running, model_ok,
          task_queue, result_callbacks, unfinished,
          wpc, cur, prompt, result, fault, served,
          ppc, pl, now,
          ncalls, nav_admitted, admitted, dequeued, ninv, last_inv,
          queued_at_shutdown, registered,
          main>>

shared == <<current_mode, last_processed_time, running, model_ok,
            task_queue, result_callbacks, unfinished>>
worker == <<wpc, cur, prompt, result, fault, served>>
history == <<ncalls, nav_admitted, admitted, dequeued, ninv, last_inv,
             queued_at_shutdown, registered>>

-----------------------------------------------------------------------------
(* Bounds of the model. *)

\* Clock readings of the admission specification range over 0..MaxTime;
\* 0 is the reading at construction.
MaxTime == 10

\* Clock readings of the pipeline specifications range over 0..MaxTick.
MaxTick == 1

\* Number of process_frame calls made in a run.
MaxCalls == 2

-----------------------------------------------------------------------------
(* Program constants and value domains. *)

\* self.process_interval = 5.0
process_interval == 5

\* Clock readings of the concurrent specification range over
\* 0..MaxRaceTime: the first interval after construction, and MaxTick more.
MaxRaceTime == process_interval + MaxTick

\* "other" stands for any string set_mode is given that is no key of prompts.
Modes == {"navigation", "reading", "assistant", "other"}

\* A frame cv2.cvtColor converts, and one it raises on (None, wrong shape).
Frames == {"ok", "bad"}

\* query: None (or the empty string, equally falsy) and a non-empty question.
NoQuery == ""
Queries == {NoQuery, "what is in front of me"}

\* callback: None, a callable that returns, a callable that raises.
Callbacks == {"none", "returns", "raises"}

\* Caller threads. Producers is the caller context of the sequential
\* specifications; AllProducers that of the concurrent one.
AllProducers == {1, 2}
Producers == {1}

NoTask == [task_id |-> "", frame |-> "", query |-> "", call |-> 0,
           mode |-> ""]
NoResult == <<>>
\* A caller's locals; ret is what its last process_frame call returned.
NoLocal == [current_time |-> 0, frame |-> "", query |-> "", callback |-> "none",
            call |-> 0, ret |-> "none"]
Returned(value) == [NoLocal EXCEPT !.ret = value]
NoInvocation == [cb |-> 0, task |-> 0, text |-> NoResult, handler |-> FALSE]

\* MainWindow before lines 86-88 of main.py have run: its clock and its
\* interval are not set yet.
NoMainWindow ==
    [pc |-> "init", last_process_time |-> 0, process_interval |-> 0,
     current_time |-> 0, call |-> 0]

\* task_id = str(current_time)
str(t) == ToString(t)

-----------------------------------------------------------------------------
(* Texts. A text is the sequence of the fragments the code concatenates. *)

ServiceText == <<"response.text">>
ServiceFault == "service fault"
ConvertFault == "cvtColor fault"
CallbackFault == "callback fault"
KeyFault(mode) == "KeyError " \o mode

\* f"Sorry, I encountered an error processing the image: {str(e)}"
ServiceErrorText(e) ==
    <<"Sorry, I encountered an error processing the image: ", e>>

\* f"Sorry, I encountered an error: {str(e)}"
LoopErrorText(e) == <<"Sorry, I encountered an error: ", e>>

\* _generate_fallback_response(mode, query)
generate_fallback_response(mode, query) ==
    IF mode = "navigation" THEN
        <<"Unable to analyze the environment. Gemini API is not available. Please check your internet connection and API key.">>
    ELSE IF mode = "reading" THEN
        <<"Unable to read text from the image. Gemini API is not available. Please check your internet connection and API key.">>
    ELSE IF mode = "assistant" THEN
        IF query # NoQuery THEN
            <<"I cannot answer your question '", query,
              "' because the Gemini API is not available. Please check your internet connection and API key.">>
        ELSE
            <<"Unable to process your request. Gemini API is not available and no question was provided.">>
    ELSE
        <<"Unsupported mode. Please try again with a valid mode.">>

\* self.prompts: the keys, and the template text with its placeholder.
PromptKeys == {"navigation", "reading", "assistant"}
prompts(mode) ==
    IF mode = "assistant" THEN <<"assistant template: ", "{query}">>
    ELSE <<mode \o " template">>

\* Lines 160-163: the prompt for a mode and query (the mode is a key).
FormatPrompt(mode, query) ==
    IF mode = "assistant" /\ query # NoQuery
    THEN <<"assistant template: ", query>>
    ELSE prompts(mode)

-----------------------------------------------------------------------------
(* The callback registry, a dict from task_id to the registered callable:  *)
(* the call that supplied it and whether it raises when invoked.           *)

DictSet(d, k, v) == [x \in DOMAIN d \cup {k} |-> IF x = k THEN v ELSE d[x]]
\* A slip: del leaves the entry in place.
DictDel_Not(d, k) == d

DictDel(d, k) == [x \in DOMAIN d \ {k} |-> d[x]]
EmptyDict == [x \in {} |-> [call |-> 0, raises |-> FALSE]]

-----------------------------------------------------------------------------
\* A slip: the interval clock starts a whole interval before construction.
Init_ClockBefore ==
    /\ current_mode = "navigation"
    /\ now = 0
    /\ last_processed_time = 0 - process_interval
    /\ running = TRUE
    /\ model_ok \in BOOLEAN
    /\ task_queue = <<>>
    /\ result_callbacks = EmptyDict
    /\ unfinished = 0
    /\ wpc = "loop"
    /\ cur = NoTask
    /\ prompt = NoResult
    /\ result = NoResult
    /\ fault = ""
    /\ served = "no"
    /\ ppc = [p \in AllProducers |-> "idle"]
    /\ pl = [p \in AllProducers |-> NoLocal]
    /\ ncalls = 0
    /\ nav_admitted = <<>>
    /\ admitted = <<>>
    /\ dequeued = <<>>
    /\ queued_at_shutdown = {}
    /\ registered = {}
    /\ ninv = [c \in {} |-> 0]
    /\ last_inv = NoInvocation
    /\ main = NoMainWindow

\* The state after AIProcessor.__init__ (lines 25-36).
Init ==
    /\ current_mode = "navigation"
    /\ now = 0
    /\ last_processed_time = 0
    /\ running = TRUE
    /\ model_ok \in BOOLEAN
    /\ task_queue = <<>>
    /\ result_callbacks = EmptyDict
    /\ unfinished = 0
    /\ wpc = "loop"
    /\ cur = NoTask
    /\ prompt = NoResult
    /\ result = NoResult
    /\ fault = ""
    /\ served = "no"
    /\ ppc = [p \in AllProducers |-> "idle"]
    /\ pl = [p \in AllProducers |-> NoLocal]
    /\ ncalls = 0
    /\ nav_admitted = <<>>
    /\ admitted = <<>>
    /\ dequeued = <<>>
    /\ queued_at_shutdown = {}
    /\ registered = {}
    /\ ninv = [c \in {} |-> 0]
    /\ last_inv = NoInvocation
    /\ main = NoMainWindow

-----------------------------------------------------------------------------
(* process_frame, set_mode and shutdown, run by a caller thread p.  The    *)
(* clock is read by process_frame alone, so it advances there: a reading   *)
(* is any value from the previous reading on (two calls can read the same  *)
(* value).  T is the last clock reading of the run, F, Q and C the frames, *)
(* queries and callbacks a caller draws from, M the modes it sets.         *)

\* A slip: the cadence check is applied in every mode.
Rejects_AnyMode(mode, current_time, last) ==
    (current_time - last) < process_interval

\* Lines 116-117: the Navigation cadence check.
Rejects(mode, current_time, last) ==
    mode = "navigation" /\ (current_time - last) < process_interval

\* A slip: the interval clock is never reset.
StampedTime_Never(mode, current_time, last) == last

\* A slip: the interval clock is reset by every admission.
StampedTime_AnyMode(mode, current_time, last) == current_time

\* Lines 126-127: the interval clock after an admission.
StampedTime(mode, current_time, last) ==
    IF mode = "navigation" THEN current_time ELSE last

\* A slip: the interval clock is reset before the cadence check.
Reject_Stamps(p, current_time) ==
    /\ pl' = [pl EXCEPT ![p] = Returned("False")]
    /\ last_processed_time' = current_time
    /\ UNCHANGED <<current_mode, running, model_ok, task_queue,
                   result_callbacks, unfinished, ppc, nav_admitted>>

\* Line 118: return False.
Reject(p, current_time) ==
    /\ pl' = [pl EXCEPT ![p] = Returned("False")]
    /\ UNCHANGED <<shared, ppc, nav_admitted>>

\* Lines 116-120 when the check passes: the call goes on with its locals.
Admit(p, current_time, frame, query, callback) ==
    /\ ppc' = [ppc EXCEPT ![p] = "register"]
    /\ pl' = [pl EXCEPT ![p] =
                [current_time |-> current_time, frame |-> frame,
                 query |-> query, callback |-> callback, call |-> ncalls + 1,
                 ret |-> "none"]]
    /\ nav_admitted' = IF current_mode = "navigation"
                       THEN Append(nav_admitted, current_time)
                       ELSE nav_admitted
    /\ UNCHANGED shared

\* Lines 115-118: read the clock, then reject (return False) or go on.
ProcessFrameBegin(p, T, F, Q, C) ==
    /\ ppc[p] = "idle"
    /\ ncalls < MaxCalls
    /\ \E t \in now..T, f \in F, q \in Q, cb \in C :
         /\ now' = t
         /\ ncalls' = ncalls + 1
         /\ ninv' = [c \in 1..(ncalls + 1) |-> IF c <= ncalls THEN ninv[c] ELSE 0]
         /\ IF Rejects(current_mode, t, last_processed_time)
            THEN Reject(p, t)
            ELSE Admit(p, t, f, q, cb)
    /\ UNCHANGED <<worker, admitted, dequeued, last_inv, queued_at_shutdown,
                   registered, main>>

\* A slip: the callback is not stored.
Registered_Not(d, task_id, callback, call) == d

\* Lines 120-122: task_id = str(current_time); register the callback.
Registered(d, task_id, callback, call) ==
    IF callback # "none"
    THEN DictSet(d, task_id, [call |-> call, raises |-> callback = "raises"])
    ELSE d

ProcessFrameRegister(p) ==
    /\ ppc[p] = "register"
    /\ result_callbacks' = Registered(result_callbacks, str(pl[p].current_time),
                                      pl[p].callback, pl[p].call)
    /\ registered' =
         IF /\ str(pl[p].current_time) \in DOMAIN result_callbacks'
            /\ result_callbacks'[str(pl[p].current_time)].call = pl[p].call
         THEN registered \cup {pl[p].call}
         ELSE registered
    /\ ppc' = [ppc EXCEPT ![p] = "put"]
    /\ UNCHANGED <<current_mode, last_processed_time, running, model_ok,
                   task_queue, unfinished, worker, pl, now,
                   ncalls, nav_admitted, admitted, dequeued, ninv, last_inv,
                   queued_at_shutdown, main>>

\* A slip: the task is put at the front of the queue.
QueuePut_Front(q, task) == <<task>> \o q

\* Line 124: self.task_queue.put((task_id, frame, query)).
QueuePut(q, task) == Append(q, task)

ProcessFramePut(p) ==
    /\ ppc[p] = "put"
    /\ task_queue' = QueuePut(task_queue,
                              [task_id |-> str(pl[p].current_time),
                               frame |-> pl[p].frame, query |-> pl[p].query,
                               call |-> pl[p].call, mode |-> current_mode])
    /\ unfinished' = unfinished + 1
    /\ admitted' = Append(admitted,
                          [call |-> pl[p].call,
                           callback |-> pl[p].callback # "none"])
    /\ ppc' = [ppc EXCEPT ![p] = "stamp"]
    /\ UNCHANGED <<current_mode, last_processed_time, running, model_ok,
                   result_callbacks, worker, pl, now,
                   ncalls, nav_admitted, dequeued, ninv, last_inv,
                   queued_at_shutdown, registered, main>>

\* Lines 126-129: reset the interval clock in navigation mode; return True.
ProcessFrameStamp(p) ==
    /\ ppc[p] = "stamp"
    /\ last_processed_time' =
         StampedTime(current_mode, pl[p].current_time, last_processed_time)
    /\ ppc' = [ppc EXCEPT ![p] = "idle"]
    /\ pl' = [pl EXCEPT ![p] = Returned("True")]
    /\ UNCHANGED <<current_mode, running, model_ok, task_queue,
                   result_callbacks, unfinished, worker, now, history, main>>

\* A slip: set_mode also restarts the interval clock.
SetMode_Restarts(p, M) ==
    /\ ppc[p] = "idle"
    /\ \E m \in M \ {current_mode} : current_mode' = m
    /\ last_processed_time' = now
    /\ UNCHANGED <<running, model_ok, task_queue,
                   result_callbacks, unfinished, worker, ppc, pl, now,
                   history, main>>

\* Lines 101-103: set_mode(mode).
SetMode(p, M) ==
    /\ ppc[p] = "idle"
    /\ \E m \in M \ {current_mode} : current_mode' = m
    /\ UNCHANGED <<last_processed_time, running, model_ok, task_queue,
                   result_callbacks, unfinished, worker, ppc, pl, now,
                   history, main>>

\* Lines 204-208: shutdown() clears running (the join only waits).
Shutdown(p) ==
    /\ ppc[p] = "idle"
    /\ running
    /\ running' = FALSE
    /\ queued_at_shutdown' = {task_queue[i].call : i \in DOMAIN task_queue}
    /\ UNCHANGED <<current_mode, last_processed_time, model_ok, task_queue,
                   result_callbacks, unfinished, worker, ppc, pl, now,
                   ncalls, nav_admitted, admitted, dequeued, ninv, last_inv,
                   registered, main>>

Caller(p, T, F, Q, C, M) ==
    \/ ProcessFrameBegin(p, T, F, Q, C)
    \/ ProcessFrameRegister(p)
    \/ ProcessFramePut(p)
    \/ ProcessFrameStamp(p)
    \/ SetMode(p, M)
    \/ Shutdown(p)

-----------------------------------------------------------------------------
(* _process_queue, the worker thread.                                      *)

\* Line 139: queue.Queue.get() takes the oldest task.
QueueGet(q) == Head(q)
\* A slip: the task taken stays in the queue.
QueueRest_Keep(q) == q

QueueRest(q) == Tail(q)

\* Lines 147, 178, 188: task_done(), and the loop starts over.
TaskDone ==
    /\ unfinished' = unfinished - 1
    /\ wpc' = "loop"
    /\ cur' = NoTask
    /\ prompt' = NoResult
    /\ result' = NoResult
    /\ fault' = ""
    /\ served' = "no"
    /\ last_inv' = NoInvocation

\* self.result_callbacks[task_id](text): the invocation, as history.
Invoke(text, in_handler) ==
    LET cb == result_callbacks[cur.task_id].call
    IN /\ ninv' = [ninv EXCEPT ![cb] = @ + 1]
       /\ last_inv' = [cb |-> cb, task |-> cur.call, text |-> text,
                       handler |-> in_handler]

\* Line 133: while self.running.
WorkerLoop ==
    /\ wpc = "loop"
    /\ wpc' = IF running THEN "poll" ELSE "exited"
    /\ UNCHANGED <<shared, cur, prompt, result, fault, served, ppc, pl, now,
                   history, main>>

\* A slip: the next task is also taken while the service call of the task
\* in hand is in progress.
WorkerPoll_DuringCall ==
    /\ wpc \in {"poll", "call"}
    /\ IF task_queue = <<>>
       THEN /\ wpc' = "loop"
            /\ UNCHANGED <<task_queue, cur, dequeued>>
       ELSE /\ cur' = QueueGet(task_queue)
            /\ task_queue' = QueueRest(task_queue)
            /\ dequeued' = Append(dequeued, QueueGet(task_queue).call)
            /\ wpc' = "got"
    /\ UNCHANGED <<current_mode, last_processed_time, running, model_ok,
                   result_callbacks, unfinished, prompt, result, fault, served,
                   ppc, pl, now, ncalls, nav_admitted, admitted, ninv, last_inv,
                   queued_at_shutdown, registered, main>>

\* Lines 135-139: on an empty queue sleep 0.1 s and start the loop over,
\* else take a task.
WorkerPoll ==
    /\ wpc = "poll"
    /\ IF task_queue = <<>>
       THEN /\ wpc' = "loop"
            /\ UNCHANGED <<task_queue, cur, dequeued>>
       ELSE /\ cur' = QueueGet(task_queue)
            /\ task_queue' = QueueRest(task_queue)
            /\ dequeued' = Append(dequeued, QueueGet(task_queue).call)
            /\ wpc' = "got"
    /\ UNCHANGED <<current_mode, last_processed_time, running, model_ok,
                   result_callbacks, unfinished, prompt, result, fault, served,
                   ppc, pl, now, ncalls, nav_admitted, admitted, ninv, last_inv,
                   queued_at_shutdown, registered, main>>

\* Lines 142-163: the fallback text when the service is unavailable; else
\* the frame conversion and the prompt, either of which can raise.
WorkerPrepare ==
    /\ wpc = "got"
    /\ IF ~model_ok
       THEN /\ result' = generate_fallback_response(current_mode, cur.query)
            /\ wpc' = "dispatch"
            /\ UNCHANGED <<prompt, fault>>
       ELSE IF cur.frame = "bad"
       THEN /\ fault' = ConvertFault
            /\ wpc' = "except"
            /\ UNCHANGED <<prompt, result>>
       ELSE IF current_mode \notin PromptKeys
       THEN /\ fault' = KeyFault(current_mode)
            /\ wpc' = "except"
            /\ UNCHANGED <<prompt, result>>
       ELSE /\ prompt' = FormatPrompt(current_mode, cur.query)
            /\ wpc' = "call"
            /\ UNCHANGED <<result, fault>>
    /\ UNCHANGED <<shared, cur, served, ppc, pl, now, history, main>>

\* Lines 166-171: the service returns its text or raises.
ServiceResult(ok) ==
    IF ok THEN ServiceText ELSE ServiceErrorText(ServiceFault)

\* served records, for the task in hand, whether generate_content was
\* called and how it ended.
WorkerCall ==
    /\ wpc = "call"
    /\ \E ok \in BOOLEAN :
         /\ result' = ServiceResult(ok)
         /\ served' = IF ok THEN "returned" ELSE "raised"
    /\ wpc' = "dispatch"
    /\ UNCHANGED <<shared, cur, prompt, fault, ppc, pl, now, history, main>>

\* Lines 144-145, 174-175: invoke the callback registered under task_id.
\* The callback returns or raises; without one the task is done.
WorkerDispatch ==
    /\ wpc = "dispatch"
    /\ IF cur.task_id \in DOMAIN result_callbacks
       THEN /\ Invoke(result, FALSE)
            /\ IF result_callbacks[cur.task_id].raises
               THEN wpc' = "except" /\ fault' = CallbackFault
               ELSE wpc' = "del" /\ fault' = fault
            /\ UNCHANGED <<unfinished, cur, prompt, result, served>>
       ELSE /\ TaskDone
            /\ UNCHANGED ninv
    /\ UNCHANGED <<current_mode, last_processed_time, running, model_ok,
                   task_queue, result_callbacks, ppc, pl, now,
                   ncalls, nav_admitted, admitted, dequeued,
                   queued_at_shutdown, registered, main>>

\* Lines 146-148, 176-178: del self.result_callbacks[task_id]; task_done().
WorkerDel ==
    /\ wpc = "del"
    /\ IF cur.task_id \in DOMAIN result_callbacks
       THEN /\ result_callbacks' = DictDel(result_callbacks, cur.task_id)
            /\ TaskDone
       ELSE /\ fault' = KeyFault(cur.task_id)
            /\ wpc' = "except"
            /\ UNCHANGED <<result_callbacks, unfinished, cur, prompt, result,
                           served, last_inv>>
    /\ UNCHANGED <<current_mode, last_processed_time, running, model_ok,
                   task_queue, ppc, pl, now,
                   ncalls, nav_admitted, admitted, dequeued, ninv,
                   queued_at_shutdown, registered, main>>

\* Lines 180-185: the handler invokes the callback registered under task_id
\* with the error text; a callback raising here ends the thread.
WorkerExcept ==
    /\ wpc = "except"
    /\ IF cur.task_id \in DOMAIN result_callbacks
       THEN /\ Invoke(LoopErrorText(fault), TRUE)
            /\ wpc' = IF result_callbacks[cur.task_id].raises
                      THEN "dead" ELSE "exdel"
            /\ UNCHANGED <<unfinished, cur, prompt, result, fault, served>>
       ELSE /\ TaskDone
            /\ UNCHANGED ninv
    /\ UNCHANGED <<current_mode, last_processed_time, running, model_ok,
                   task_queue, result_callbacks, ppc, pl, now,
                   ncalls, nav_admitted, admitted, dequeued,
                   queued_at_shutdown, registered, main>>

\* Lines 186-188: del self.result_callbacks[task_id]; task_done().  A
\* missing key raises out of the handler and ends the thread.
WorkerExceptDel ==
    /\ wpc = "exdel"
    /\ IF cur.task_id \in DOMAIN result_callbacks
       THEN /\ result_callbacks' = DictDel(result_callbacks, cur.task_id)
            /\ TaskDone
       ELSE /\ wpc' = "dead"
            /\ UNCHANGED <<result_callbacks, unfinished, cur, prompt, result,
                           fault, served, last_inv>>
    /\ UNCHANGED <<current_mode, last_processed_time, running, model_ok,
                   task_queue, ppc, pl, now,
                   ncalls, nav_admitted, admitted, dequeued, ninv,
                   queued_at_shutdown, registered, main>>

Worker ==
    \/ WorkerLoop
    \/ WorkerPoll
    \/ WorkerPrepare
    \/ WorkerCall
    \/ WorkerDispatch
    \/ WorkerDel
    \/ WorkerExcept
    \/ WorkerExceptDel

-----------------------------------------------------------------------------
(* MainWindow (main.py), the application around the AIProcessor: its own   *)
(* cadence clock and interval, and the camera's frame handler, which calls *)
(* process_frame.  I is the set of intervals the settings hold, T the last *)
(* clock reading, F the frames of the camera, M the modes of the menu.     *)

\* Line 87: last_process_time = 0, the epoch of time.time().  Reading 0 of
\* the clock is the construction of the AIProcessor, and the epoch lies
\* further back than any interval.
EpochTime == 0 - 1000

\* The values of the interval slider the settings are drawn from
\* (ui_components.py, lines 247-249: 1 to 10 seconds, 5 by default).
Intervals == {3, 5, 7}

\* Lines 86-88, after the AIProcessor is constructed at line 83: the clock
\* of the frame handler and the interval loaded from the settings.
InitComponents(I) ==
    /\ main.pc = "init"
    /\ \E i \in I :
         main' = [NoMainWindow EXCEPT !.pc = "idle",
                                      !.last_process_time = EpochTime,
                                      !.process_interval = i]
    /\ UNCHANGED <<shared, worker, ppc, pl, now, history>>

\* Lines 366-382: _apply_settings stores the new interval in MainWindow.
ApplySettings(I) ==
    /\ main.pc = "idle"
    /\ \E i \in I \ {main.process_interval} :
         main' = [main EXCEPT !.process_interval = i]
    /\ UNCHANGED <<shared, worker, ppc, pl, now, history>>

\* Line 237: the cadence check of the frame handler.
FrameDue(current_time, last, interval) == current_time - last >= interval

\* Lines 235-238: in navigation mode _handle_new_frame reads the clock and
\* calls _process_frame when the frame is due; otherwise the frame is only
\* displayed.
HandleNewFrame(p, T) ==
    /\ main.pc = "idle"
    /\ ppc[p] = "idle"
    /\ current_mode = "navigation"
    /\ ncalls < MaxCalls
    /\ \E t \in now..T :
         /\ now' = t
         /\ main' = IF FrameDue(t, main.last_process_time,
                                main.process_interval)
                    THEN [main EXCEPT !.pc = "calling", !.current_time = t,
                                      !.call = ncalls]
                    ELSE main
    /\ UNCHANGED <<shared, worker, ppc, pl, history>>

\* Lines 248-255: _process_frame calls process_frame(frame, None,
\* self._handle_ai_result), a callback that returns.
ProcessFrameCall(p, T, F) ==
    /\ main.pc = "calling"
    /\ ncalls = main.call
    /\ ProcessFrameBegin(p, T, F, {NoQuery}, {"returns"})

\* Line 239: process_frame has returned (its value is dropped) and the
\* clock of the frame handler is set to the reading of line 236.
HandleNewFrameEnd(p) ==
    /\ main.pc = "calling"
    /\ ncalls > main.call
    /\ ppc[p] = "idle"
    /\ main' = [main EXCEPT !.pc = "idle",
                            !.last_process_time = main.current_time]
    /\ UNCHANGED <<shared, worker, ppc, pl, now, history>>

MainWindow(p, T, F, I, M) ==
    \/ InitComponents(I)
    \/ ApplySettings(I)
    \/ HandleNewFrame(p, T)
    \/ ProcessFrameCall(p, T, F)
    \/ ProcessFrameRegister(p)
    \/ ProcessFramePut(p)
    \/ ProcessFrameStamp(p)
    \/ HandleNewFrameEnd(p)
    \/ SetMode(p, M)

-----------------------------------------------------------------------------
(* Specifications.  The sequential ones have one caller thread, so         *)
(* process_frame calls do not overlap each other; they interleave with     *)
(* the worker.                                                             *)
(*   Spec          the pipeline: every frame, callback and mode, over the  *)
(*                 clock readings 0..MaxTick (within one interval of       *)
(*                 construction, so tasks are admitted outside Navigation  *)
(*                 mode).                                                  *)
(*   FairSpec      Spec, with the worker thread eventually scheduled       *)
(*                 whenever it can take a step.                            *)
(*   SpecAdmission the cadence: clock readings 0..MaxTime, Navigation and  *)
(*                 Reading mode and the unknown mode.                      *)
(*   SpecConc      two caller threads whose process_frame calls overlap,   *)
(*                 over the clock readings 0..MaxRaceTime, in Navigation   *)
(*                 mode and the unknown mode, with callbacks that return.  *)
(*   SpecText      the texts: every query, callback and mode, frames that  *)
(*                 convert, over the clock readings 0..MaxTick.            *)
(*   SpecClock     the interval clock under the three modes of the         *)
(*                 application: clock readings 0..MaxTime, every frame,    *)
(*                 callbacks that return.                                  *)
(*   SpecMain      the AIProcessor inside MainWindow: process_frame is     *)
(*                 called by the frame handler, over the clock readings    *)
(*                 0..MaxTime, with the intervals of the settings.         *)

Next ==
    Worker \/ \E p \in Producers :
                 Caller(p, MaxTick, Frames, {NoQuery}, Callbacks, Modes)

NextAdmission ==
    Worker \/ \E p \in Producers :
                 Caller(p, MaxTime, {"ok"}, {NoQuery}, {"none", "returns"},
                        {"navigation", "reading", "other"})

NextConc ==
    Worker \/ \E p \in AllProducers :
                 Caller(p, MaxRaceTime, {"ok"}, {NoQuery}, {"returns"},
                        {"navigation", "other"})

NextText ==
    Worker \/ \E p \in Producers :
                 Caller(p, MaxTick, {"ok"}, Queries, Callbacks, Modes)

NextClock ==
    Worker \/ \E p \in Producers :
                 Caller(p, MaxTime, Frames, {NoQuery}, {"returns"},
                        {"navigation", "reading", "assistant"})

NextMain ==
    Worker \/ \E p \in Producers :
                 MainWindow(p, MaxTime, Frames, Intervals,
                            {"navigation", "assistant"})

Spec == Init /\ [][Next]_vars

FairSpec == Spec /\ WF_vars(Worker)

InitAdmission == Init /\ model_ok

SpecAdmission == InitAdmission /\ [][NextAdmission]_vars

SpecConc == Init /\ [][NextConc]_vars

SpecText == Init /\ [][NextText]_vars

SpecClock == InitAdmission /\ [][NextClock]_vars

SpecMain == InitAdmission /\ [][NextMain]_vars

-----------------------------------------------------------------------------
(* Vocabulary of the properties.                                           *)

\* The tasks that are pending: queued, or in the worker's hands.
Pending == task_queue \o (IF cur = NoTask THEN <<>> ELSE <<cur>>)

AdmittedCalls == {admitted[i].call : i \in DOMAIN admitted}

\* Call c was admitted and had been given a callback.
AdmittedWithCallback(c) ==
    \E i \in DOMAIN admitted : admitted[i].call = c /\ admitted[i].callback

\* Call c has returned False: it was made, and is neither admitted nor
\* still running.
RejectedCall(c) ==
    /\ c \in 1..ncalls
    /\ c \notin AdmittedCalls
    /\ \A p \in AllProducers : pl[p].call # c

Invocations(c) == IF c \in DOMAIN ninv THEN ninv[c] ELSE 0

\* This step invokes the callback of call c.
InvokesCallback(c) == c \in DOMAIN ninv /\ ninv'[c] > ninv[c]

\* This step is a process_frame call of thread p returning False.
RejectStep(p) == ncalls' = ncalls + 1 /\ pl'[p].ret = "False"

Contains(text, fragment) == \E i \in DOMAIN text : text[i] = fragment

-----------------------------------------------------------------------------
(* C1 - C10.                                                               *)

\* C1: every callback passed to an admitted process_frame call is invoked
\* at most once, whatever the task's outcome, a fault raised by the
\* callback itself included.
C1_AtMostOnce == \A c \in DOMAIN ninv : ninv[c] <= 1

\* C2: under fair scheduling of the worker, every admitted task that was
\* submitted with a callback eventually has that callback invoked with
\* exactly one Result, unless shutdown is requested first.
C2_EventuallyInvoked ==
    \A c \in 1..MaxCalls :
        AdmittedWithCallback(c) ~> (~running \/ Invocations(c) = 1)

\* C3: with non-overlapping process_frame calls, any two tasks admitted
\* while the mode is Navigation have admission timestamps at least
\* process_interval apart.
C3_NavigationSpacing ==
    \A i, j \in DOMAIN nav_admitted :
        i < j => nav_admitted[j] - nav_admitted[i] >= process_interval

C3_Witness ==
    /\ Len(nav_admitted) >= 2
    /\ Len(admitted) >= 2

\* C4: from construction on, a Navigation-mode call is admitted unless a
\* Navigation-mode task was admitted less than process_interval before it
\* (so the first call is admitted, and so is every call at least
\* process_interval after the one before), and it is rejected if one was.
C4_CadenceFromConstruction ==
    [][\A p \in Producers :
          /\ RejectStep(p) =>
                \E i \in DOMAIN nav_admitted :
                    now' - nav_admitted[i] < process_interval
          /\ Len(nav_admitted') > Len(nav_admitted) =>
                \A i \in DOMAIN nav_admitted :
                    now' - nav_admitted[i] >= process_interval]_vars

\* C5: a rejected process_frame call returns False and changes nothing: no
\* task is enqueued, the callback is neither registered nor ever invoked,
\* and last_processed_time is unchanged.
C5_RejectChangesNothing ==
    [][/\ \A p \in Producers :
             RejectStep(p) =>
                /\ task_queue' = task_queue
                /\ unfinished' = unfinished
                /\ result_callbacks' = result_callbacks
                /\ last_processed_time' = last_processed_time
                /\ current_mode' = current_mode
                /\ ppc'[p] = "idle"
       /\ \A c \in 1..ncalls :
             RejectedCall(c) =>
                /\ RejectedCall(c)'
                /\ Invocations(c)' = 0
                /\ \A k \in DOMAIN result_callbacks' :
                      result_callbacks'[k].call # c]_vars

C5_Witness ==
    /\ \E p \in Producers : pl[p].ret = "False"
    /\ task_queue # <<>>
    /\ DOMAIN result_callbacks # {}
    /\ \E c \in 1..ncalls : RejectedCall(c)

\* C6: no two tasks pending at the same time have the same task identifier.
C6_UniquePendingIds ==
    \A i, j \in DOMAIN Pending :
        i # j => Pending[i].task_id # Pending[j].task_id

\* C7: a Result is delivered only to the callback supplied in the call
\* that admitted the task, and the callback registered for a pending task
\* is never replaced by another call's callback.
C7_OwnCallback ==
    /\ last_inv.cb = last_inv.task
    /\ \A i \in DOMAIN Pending :
          Pending[i].task_id \in DOMAIN result_callbacks =>
              result_callbacks[Pending[i].task_id].call = Pending[i].call

\* C8: tasks are dequeued in the order they were admitted, and callbacks
\* are invoked in that order: when a callback is invoked, no callback of a
\* later admitted call has been invoked before.
C8_Fifo ==
    [][/\ \A i \in DOMAIN dequeued' :
             i <= Len(admitted') /\ dequeued'[i] = admitted'[i].call
       /\ \A i, j \in DOMAIN admitted' :
             i < j => admitted'[i].call < admitted'[j].call
       /\ \A c \in DOMAIN ninv :
             InvokesCallback(c) =>
                 \A d \in DOMAIN ninv : d > c => ninv[d] = 0]_vars

C8_Witness ==
    /\ Len(dequeued) >= 2
    /\ \A c \in 1..2 : Invocations(c) >= 1

\* C9: as long as shutdown has not been requested, the worker is idle
\* polling or processing a task: no failure in handling a task ends it.
C9_WorkerSurvives == running => wpc \notin {"dead", "exited"}

\* C10: when the service raises for a task, the Result is the error text
\* with the fault detail, it is delivered to the task's callback by the
\* dispatch after the call, and the worker lives on to the next task.
C10_ServiceFaultRecovered ==
    [][/\ served' = "raised" =>
             /\ Contains(result', ServiceFault)
             /\ wpc' # "dead"
       /\ (served = "raised" /\ wpc = "dispatch" /\ wpc' # wpc
             /\ AdmittedWithCallback(cur.call)) =>
             last_inv' = [cb |-> cur.call, task |-> cur.call,
                          text |-> ServiceErrorText(ServiceFault),
                          handler |-> FALSE]]_vars

-----------------------------------------------------------------------------
(* C11 - C20.                                                              *)

\* This step is the worker settling the text of the task it took (the
\* fallback text, the prompt, or a fault).
PrepareStep == wpc = "got" /\ wpc' # "got"

\* C11: while the service is unavailable no call to the service is made,
\* the text settled for a task is the fallback text for the mode and the
\* task's query (for assistant with a query it echoes the query), and
\* every Result a callback is invoked with is that text.
C11_FallbackWhenUnavailable ==
    [][~model_ok =>
          /\ wpc' # "call" /\ served' = "no"
          /\ PrepareStep =>
                /\ result' = generate_fallback_response(current_mode, cur.query)
                /\ (current_mode = "assistant" /\ cur.query # NoQuery) =>
                       Contains(result', cur.query)
          /\ \A c \in DOMAIN ninv :
                InvokesCallback(c) => last_inv'.text = result]_vars

\* C12: the mode that selects a task's fallback text or prompt template is
\* the mode that was current when the task was admitted, whatever set_mode
\* calls came between its admission and its processing.
C12_ModeAtAdmission ==
    [][PrepareStep =>
          /\ ~model_ok =>
                result' = generate_fallback_response(cur.mode, cur.query)
          /\ (model_ok /\ cur.frame = "ok" /\ cur.mode \in PromptKeys) =>
                /\ wpc' = "call"
                /\ prompt' = FormatPrompt(cur.mode, cur.query)]_vars

\* C13: once shutdown has been requested, no callback of a task that was
\* in the queue at that moment is invoked.
C13_QueuedNeverInvoked ==
    [][\A c \in queued_at_shutdown : ~InvokesCallback(c)]_vars

\* C14: after shutdown() has cleared running, the worker eventually
\* observes it at the loop test and exits, from idle polling and from
\* processing a task alike; a worker that observes it exits at once, and
\* an exited worker takes no task.
C14_ShutdownObserved ==
    /\ ~running ~> wpc = "exited"
    /\ [][/\ (wpc = "loop" /\ ~running /\ wpc' # wpc) => wpc' = "exited"
          /\ wpc = "exited" => (wpc' = "exited" /\ dequeued' = dequeued)]_vars

\* C15: with two caller threads running process_frame concurrently, of two
\* calls made in Navigation mode whose timestamps are less than
\* process_interval apart at most one is admitted.
C15_SerializedAdmission ==
    \A i, j \in DOMAIN nav_admitted :
        (i # j /\ nav_admitted[i] <= nav_admitted[j]) =>
            nav_admitted[j] - nav_admitted[i] >= process_interval

\* This step is the worker taking a task from the queue.
DequeueStep == Len(dequeued') > Len(dequeued)

\* C16: an admitted call enqueues exactly one task; a supplied callback has
\* been registered under the task's identifier before the task enters the
\* queue and before process_frame returns, so that the worker never takes
\* a task whose supplied callback is not yet registered.
C16_RegisteredBeforeVisible ==
    [][/\ \A p \in Producers :
             /\ (ppc[p] = "put" /\ ppc'[p] = "stamp") =>
                   /\ Len(task_queue') = Len(task_queue) + 1
                   /\ pl[p].callback # "none" => pl[p].call \in registered
             /\ (ppc[p] = "stamp" /\ ppc'[p] = "idle") =>
                   /\ Cardinality({i \in DOMAIN admitted :
                                      admitted[i].call = pl[p].call}) = 1
                   /\ pl[p].callback # "none" => pl[p].call \in registered
       /\ (DequeueStep /\ AdmittedWithCallback(cur'.call)) =>
             cur'.call \in registered]_vars

C16_Witness ==
    /\ dequeued # <<>>
    /\ AdmittedWithCallback(dequeued[1])
    /\ dequeued[1] \in registered
    /\ \E p \in Producers : pl[p].ret = "True"

\* This step is a process_frame call of thread p passing the cadence check.
AdmitStep(p) == ncalls' = ncalls + 1 /\ ppc'[p] = "register"

\* This step is a process_frame call of thread p returning True.
ReturnTrueStep(p) == ppc[p] = "stamp" /\ pl'[p].ret = "True"

\* C17: a process_frame call made while the mode is Reading or Assistant
\* is admitted, however recently an earlier task was admitted: it is not
\* rejected, and it returns True with its task enqueued.
C17_UnconditionalAdmission ==
    [][\A p \in Producers :
          /\ (ncalls' = ncalls + 1 /\ current_mode \in {"reading", "assistant"})
                => AdmitStep(p)
          /\ (ppc[p] # "idle" /\ current_mode \in {"reading", "assistant"}) =>
                \/ ppc'[p] # "idle"
                \/ /\ ReturnTrueStep(p)
                   /\ pl[p].call \in AdmittedCalls]_vars

\* Two calls in a row were admitted, the second in Assistant mode, at a
\* clock reading at which a Navigation call would be rejected.
C17_Witness ==
    /\ Len(admitted) = 2
    /\ \E p \in Producers : pl[p].ret = "True"
    /\ current_mode = "assistant"
    /\ Rejects("navigation", now, last_processed_time)

\* Every admitted task has been drained: no call is under way, the queue
\* is empty and the worker is at its loop test or its poll with no task in
\* hand.
Drained ==
    /\ \A p \in AllProducers : ppc[p] = "idle"
    /\ task_queue = <<>>
    /\ wpc \in {"loop", "poll"}
    /\ cur = NoTask

Processing == wpc \in {"got", "call", "dispatch", "del", "except", "exdel"}

\* C19: every task the worker takes is marked complete exactly once,
\* whatever its outcome: the queue's count of unfinished tasks is the
\* number of tasks queued plus the one being processed, and zero when
\* every admitted task has been drained.
C19_UnfinishedAccounting ==
    /\ unfinished = Len(task_queue) + (IF Processing THEN 1 ELSE 0)
    /\ Drained => unfinished = 0

DequeuedCalls == {dequeued[i] : i \in DOMAIN dequeued}

\* C20: the service is called at most once for a task (served leaves "no"
\* once, and returns to it only when the task is done), no task is taken
\* from the queue twice, and no task that was taken is in the queue again,
\* whatever the outcome of the service call, the callback or the handler.
C20_NoRetries ==
    [][/\ served' # served =>
             \/ served = "no" /\ wpc = "call"
             \/ served' = "no" /\ cur' = NoTask
       /\ (wpc = "call" /\ wpc' # wpc) => served = "no"
       /\ \A i, j \in DOMAIN dequeued' :
             i # j => dequeued'[i] # dequeued'[j]
       /\ \A i \in DOMAIN task_queue' :
             task_queue'[i].call \notin DequeuedCalls']_vars

\* The service raised for the second task taken, and the error Result has
\* been delivered.
C20_Witness ==
    /\ Len(dequeued) = 2
    /\ served = "raised"
    /\ wpc = "del"
    /\ last_inv.text = ServiceErrorText(ServiceFault)

-----------------------------------------------------------------------------
(* C21 - C30.                                                              *)

\* The worker is inside model.generate_content (line 167): it has built
\* the prompt and the call has not returned or raised yet.
InServiceCall == wpc = "call"

\* C21: at most one call to the service is in progress: a call begins only
\* for a task just prepared, for which none was made and while none is in
\* progress, and until it ends the one worker takes no other task and
\* begins no other call, whatever the caller threads do meanwhile.
C21_OneServiceCall ==
    [][/\ (InServiceCall' /\ ~InServiceCall) => (wpc = "got" /\ served = "no")
       /\ InServiceCall =>
             /\ cur' = cur
             /\ dequeued' = dequeued
             /\ wpc' \in {"call", "dispatch"}
             /\ wpc' = "dispatch" => served' # "no"]_vars

\* A service call is in progress while another task waits in the queue and
\* a caller thread is inside process_frame.
C21_Witness ==
    /\ InServiceCall
    /\ task_queue # <<>>
    /\ \E p \in AllProducers : ppc[p] # "idle"

\* This step is a step of the worker thread.
WorkerStep == wpc' # wpc

\* C22: a call admitted with no callback adds no entry to the registry,
\* and while its task is in the worker's hands the worker invokes no
\* callback, removes no entry of the registry and lives on.
C22_NoCallbackTask ==
    [][/\ \A p \in Producers :
             (ppc[p] = "register" /\ ppc'[p] = "put"
                 /\ pl[p].callback = "none") =>
                 result_callbacks' = result_callbacks
       /\ (WorkerStep /\ cur # NoTask /\ ~AdmittedWithCallback(cur.call)) =>
             /\ ninv' = ninv
             /\ result_callbacks' = result_callbacks
             /\ wpc' # "dead"]_vars

\* This step is a set_mode call.
SetModeStep == current_mode' # current_mode

\* C23: set_mode changes the current mode and nothing else: no task is
\* enqueued, no callback is registered or invoked, and the interval clock
\* is left as it was, also when the new mode is Navigation.
C23_SetModeOnlyMode ==
    [][SetModeStep =>
          /\ task_queue' = task_queue
          /\ unfinished' = unfinished
          /\ result_callbacks' = result_callbacks
          /\ last_processed_time' = last_processed_time
          /\ running' = running
          /\ ninv' = ninv
          /\ admitted' = admitted
          /\ nav_admitted' = nav_admitted
          /\ ppc' = ppc]_vars

\* The mode is Navigation again after a task was admitted in another mode,
\* with the interval clock stamped, a task queued and a callback registered.
C23_Witness ==
    /\ current_mode = "navigation"
    /\ Len(admitted) > Len(nav_admitted)
    /\ last_processed_time > 0
    /\ task_queue # <<>>
    /\ DOMAIN result_callbacks # {}

\* The task in hand was given the Assistant prompt with its query.
AssistantPrompt ==
    /\ cur.query # NoQuery
    /\ prompt = FormatPrompt("assistant", cur.query)

\* C24: with the service available, the prompt built in Assistant mode for
\* a task with a non-empty query contains the query, it is the prompt the
\* service is called with, and every Result a callback is invoked with
\* for that task, once the service has returned, is the service's text.
C24_AssistantQueryAndResult ==
    [][/\ (PrepareStep /\ model_ok /\ cur.frame = "ok"
             /\ current_mode = "assistant" /\ cur.query # NoQuery) =>
             /\ wpc' = "call"
             /\ Contains(prompt', cur.query)
       /\ (AssistantPrompt /\ served' = "returned") => result' = ServiceText
       /\ (AssistantPrompt /\ served = "returned") =>
             \A c \in DOMAIN ninv :
                 InvokesCallback(c) => last_inv'.text = ServiceText]_vars

\* C25: a fault caught by the loop-level handler (the frame conversion,
\* the prompt lookup, or any other fault outside the service call) gets
\* the callback registered for the task invoked with the error text, that
\* being its only invocation; then the registration is removed, the task
\* is marked complete and the worker is back at its loop test.
C25_FaultHandled ==
    [][/\ (wpc = "except" /\ WorkerStep) =>
             IF cur.task_id \in DOMAIN result_callbacks
             THEN /\ last_inv'.text = LoopErrorText(fault)
                  /\ last_inv'.cb = cur.call
                  /\ ninv'[last_inv'.cb] = 1
                  /\ wpc' = "exdel"
             ELSE /\ ninv' = ninv
                  /\ unfinished' = unfinished - 1
                  /\ wpc' = "loop"
       /\ (wpc = "exdel" /\ WorkerStep) =>
             /\ cur.task_id \notin DOMAIN result_callbacks'
             /\ unfinished' = unfinished - 1
             /\ wpc' = "loop"]_vars

\* A task as MainWindow submits it: a camera frame with no query while the
\* mode is navigation or reading (main.py lines 222-255), or a frame with
\* the recognized speech as query while it is assistant (lines 283-293).
MainWindowTask(task) ==
    \/ task.mode \in {"navigation", "reading"} /\ task.query = NoQuery
    \/ task.mode = "assistant" /\ task.query # NoQuery

\* C26: for the tasks MainWindow submits, under every interleaving of its
\* mode changes with the worker, the prompt the service is called with is
\* never the Assistant template with its placeholder left in: a prompt
\* built while the mode is assistant has a non-empty query in it.
C26_PlaceholderReplaced ==
    [][(PrepareStep /\ MainWindowTask(cur) /\ wpc' = "call") =>
          /\ ~Contains(prompt', "{query}")
          /\ current_mode = "assistant" =>
                (cur.query # NoQuery /\ Contains(prompt', cur.query))]_vars

\* The clock reading at construction (line 32), where Init starts the
\* clock.
ConstructionTime == 0

\* The clock reading of the last task admitted in Navigation mode; before
\* any, that of construction.
LastNavigationAdmission ==
    IF nav_admitted = <<>> THEN ConstructionTime
    ELSE nav_admitted[Len(nav_admitted)]

\* This step is a process_frame call of thread p being judged.
JudgedStep(p) == ncalls' = ncalls + 1 /\ ppc[p] = "idle"

\* C27: an admission made while the mode is reading or assistant leaves
\* last_processed_time as it was, so that a Navigation call is rejected
\* exactly when it comes less than process_interval after the last task
\* admitted in Navigation mode (after construction, before any), whatever
\* was admitted in the other modes since.
C27_OtherModesLeaveClock ==
    [][\A p \in Producers :
          /\ (ppc[p] # "idle" /\ current_mode \in {"reading", "assistant"}) =>
                last_processed_time' = last_processed_time
          /\ (JudgedStep(p) /\ current_mode = "navigation") =>
                (RejectStep(p) <=>
                    now' - LastNavigationAdmission < process_interval)]_vars

\* After an admission in Assistant mode at a reading past the first
\* interval, a Navigation call less than process_interval later was
\* admitted.
C27_Witness ==
    /\ Len(admitted) = 2
    /\ Len(nav_admitted) = 1
    /\ admitted[1].call = 1
    /\ current_mode = "navigation"
    /\ task_queue # <<>>
    /\ task_queue[1].mode = "assistant"
    /\ \E t \in 1..MaxTime :
          /\ task_queue[1].task_id = str(t)
          /\ nav_admitted[1] - t < process_interval
    /\ \E p \in Producers : pl[p].ret = "True"

\* C28: the interval that process_frame applies to Navigation calls is the
\* configured one: once the settings are loaded, and after every change of
\* them, a Navigation call is rejected exactly when it comes less than the
\* interval held by the settings after the last reset of the interval clock.
C28_ConfiguredInterval ==
    [][\A p \in Producers :
          (main.pc # "init" /\ JudgedStep(p) /\ current_mode = "navigation") =>
             (RejectStep(p) <=>
                now' - last_processed_time < main.process_interval)]_vars

\* The frame handler has found a frame due and is calling process_frame.
FrameHandlerCalls == main.pc = "calling" /\ ncalls = main.call

\* C29: the cadence check of the frame handler and the admission check of
\* process_frame are one policy: in Navigation mode every call that
\* _handle_new_frame makes for a frame it found due is admitted.
C29_SamePolicy ==
    [][\A p \in Producers :
          (FrameHandlerCalls /\ JudgedStep(p) /\ current_mode = "navigation")
             => AdmitStep(p)]_vars

\* C30: a Navigation call made less than process_interval after the
\* construction of the AIProcessor is rejected although no task has been
\* admitted yet, and nothing is enqueued or registered for it.
C30_FirstCallRejected ==
    [][\A p \in Producers :
          (/\ JudgedStep(p)
           /\ current_mode = "navigation"
           /\ admitted = <<>> /\ nav_admitted = <<>>
           /\ now' - ConstructionTime < process_interval)
             => /\ RejectStep(p)
                /\ task_queue' = task_queue
                /\ result_callbacks' = result_callbacks
                /\ last_processed_time' = ConstructionTime]_vars

C30_Witness ==
    /\ current_mode = "navigation"
    /\ ncalls = 1
    /\ admitted = <<>> /\ nav_admitted = <<>>
    /\ now > ConstructionTime /\ now < process_interval
    /\ \E p \in Producers : ppc[p] = "idle" /\ pl[p].ret = "False"
    /\ task_queue = <<>> /\ result_callbacks = EmptyDict

====
